---- MODULE Spec2Model ----
(***************************************************************************)
(* Model of the MakerCode native backend (src-tauri/src/lib.rs):           *)
(*   - get_project_tree / build_tree / is_ignored: the directory walk      *)
(*   - git_init / git_add_all / git_commit: the commit commands            *)
(*                                                                         *)
(* Strings.  An OS file name (OsString) is a sequence of byte values.  A   *)
(* Rust String is the sequence of its UTF-8 bytes, so String::cmp is the   *)
(* lexicographic comparison of these sequences.  The byte alphabet of the  *)
(* model is ASCII plus the bytes 254 and 255, which are never part of a    *)
(* well-formed UTF-8 sequence.                                             *)
(***************************************************************************)
EXTENDS Integers, Sequences, FiniteSets, TLC

VARIABLES
    host,      \* the platform the backend runs on
    fs,        \* the file system below the project root
    faults,    \* the I/O failures the next walk meets
    order,     \* the enumeration order the host used in the last walk
    result,    \* None, or Some(what get_project_tree returned)
    repo,      \* the git repository at the project path
    worktree,  \* the content of the working tree
    reply,     \* what the last git command returned
    commits_ok \* how many git_commit calls have returned Ok

treeVars == <<host, fs, faults, order, result>>
gitVars == <<repo, worktree, reply, commits_ok>>
vars == <<host, fs, faults, order, result, repo, worktree, reply, commits_ok>>

(***************************************************************************)
(* Bounds of the model.                                                    *)
(***************************************************************************)
\* largest number of entries below the root of a drawn file system
MaxEntries == 3
\* largest number of injected I/O failures in one walk
MaxFaults == 1
\* largest number of commits a run of the git commands creates
MaxCommits == 3
\* largest number of edits of the working tree in a run of the git commands
MaxEdits == 1

(***************************************************************************)
(* Byte strings.                                                           *)
(***************************************************************************)
Lower == "abcdefghijklmnopqrstuvwxyz"
Upper == "ABCDEFGHIJKLMNOPQRSTUVWXYZ"

\* position of the one-character string c in the string s
IndexIn(c, s) == CHOOSE i \in 1..Len(s) : SubSeq(s, i, i) = c

\* the ASCII code of a one-character string (the characters the model uses)
Code(c) ==
    CASE c = "." -> 46
      [] c = "/" -> 47
      [] c = "\\" -> 92
      [] c = "_" -> 95
      [] \E i \in 1..Len(Upper) : SubSeq(Upper, i, i) = c -> 64 + IndexIn(c, Upper)
      [] OTHER -> 96 + IndexIn(c, Lower)

\* the bytes of an ASCII string literal
Bytes(s) == [i \in 1..Len(s) |-> Code(SubSeq(s, i, i))]

Slash == Bytes("/")
Backslash == Bytes("\\")

\* U+FFFD REPLACEMENT CHARACTER in UTF-8
ReplacementChar == <<239, 191, 189>>

RECURSIVE Concat(_)
\* the concatenation of a sequence of byte strings
Concat(ss) == IF ss = <<>> THEN <<>> ELSE Head(ss) \o Concat(Tail(ss))

\* OsStr::to_string_lossy: ASCII is kept, every byte that cannot occur in
\* well-formed UTF-8 becomes one U+FFFD
to_string_lossy(os) == Concat([i \in 1..Len(os) |->
                          IF os[i] < 128 THEN <<os[i]>> ELSE ReplacementChar])

\* str::replace(from, to) for one-byte patterns
replace(s, from, to) == [i \in 1..Len(s) |-> IF <<s[i]>> = from THEN to[1] ELSE s[i]]

RECURSIVE str_cmp(_, _)
\* String::cmp: lexicographic comparison of the UTF-8 bytes
str_cmp(a, b) ==
    IF a = <<>> /\ b = <<>> THEN "Equal"
    ELSE IF a = <<>> THEN "Less"
    ELSE IF b = <<>> THEN "Greater"
    ELSE IF Head(a) < Head(b) THEN "Less"
    ELSE IF Head(a) > Head(b) THEN "Greater"
    ELSE str_cmp(Tail(a), Tail(b))

(***************************************************************************)
(* Paths.  A Path is the sequence of its components; the walk only ever    *)
(* joins one component at a time, with the separator of the host.         *)
(***************************************************************************)
\* std::path::MAIN_SEPARATOR of the host
MainSeparator(h) == IF h = "windows" THEN Backslash ELSE Slash

RECURSIVE JoinWith(_, _)
\* the text of a relative path: its components joined by the separator
JoinWith(comps, sep) ==
    IF comps = <<>> THEN <<>>
    ELSE IF Len(comps) = 1 THEN comps[1]
    ELSE comps[1] \o sep \o JoinWith(Tail(comps), sep)

IsPrefix(p, q) == Len(p) <= Len(q) /\ SubSeq(q, 1, Len(p)) = p

\* Path::strip_prefix: Ok(the remaining components) or Err
strip_prefix(p, base) ==
    IF IsPrefix(base, p)
    THEN [ok |-> TRUE, rest |-> SubSeq(p, Len(base) + 1, Len(p))]
    ELSE [ok |-> FALSE, rest |-> <<>>]

(***************************************************************************)
(* The file system seen by one walk.  A world w is a record                *)
(*   host    "unix" or "windows"                                           *)
(*   fs      a function from the paths that exist to "dir" or "file"       *)
(*   faults  the I/O failures of this walk, a set of Fault(kind, path):     *)
(*           "read_dir" (fs::read_dir of the directory fails), "entry"     *)
(*           (the ReadDir iterator yields Err for the entry), "metadata"   *)
(*           (metadata() of the entry fails)                               *)
(*   order   for every directory, its entries in the order in which the    *)
(*           host enumerates them                                          *)
(***************************************************************************)
\* Option<T>: None is the empty sequence, Some(x) the one-element sequence
None == <<>>
Some(x) == <<x>>

\* the root every drawn file system hangs from
RootPath == <<Bytes("proj")>>

Last(p) == p[Len(p)]
Parent(p) == SubSeq(p, 1, Len(p) - 1)

Fault(kind, p) == [kind |-> kind, path |-> p]

\* Path::exists
exists(p, w) == p \in DOMAIN w.fs

\* fs::read_dir(path): Err, or Ok with the items the iterator yields, in the
\* order of the host; an item is an entry path
read_dir(path, w) ==
    IF ~exists(path, w) \/ w.fs[path] # "dir" \/ Fault("read_dir", path) \in w.faults
    THEN [ok |-> FALSE, items |-> <<>>]
    ELSE [ok |-> TRUE, items |-> w.order[path]]

\* struct FileNode
FileNode(name, path, is_directory, children) ==
    [name |-> name, path |-> path, is_directory |-> is_directory, children |-> children]

\* the string patterns of the matches! in is_ignored
IgnoredNames ==
    { Bytes("node_modules"), Bytes(".git"), Bytes("target"), Bytes("dist"),
      Bytes("build"), Bytes(".maker"), Bytes("__pycache__"), Bytes("venv"),
      Bytes(".vscode") }

\* is_ignored with the ".git" pattern left out
is_ignored_without_git(name) == name \in IgnoredNames \ { Bytes(".git") }

\* fn is_ignored(name: &str) -> bool
is_ignored(name) == name \in IgnoredNames

\* the closure without the match on the kinds: names only
cmp_nodes_names_only(a, b) == str_cmp(a.name, b.name)

\* the ASCII letters of a string in lower case
to_ascii_lowercase(s) == [i \in DOMAIN s |-> IF s[i] \in 65..90 THEN s[i] + 32 ELSE s[i]]

\* the closure comparing the names without regard to case
cmp_nodes_caseless(a, b) ==
    IF a.is_directory /\ ~b.is_directory THEN "Less"
    ELSE IF ~a.is_directory /\ b.is_directory THEN "Greater"
    ELSE str_cmp(to_ascii_lowercase(a.name), to_ascii_lowercase(b.name))

\* the closure given to sort_by, in both places it is written
cmp_nodes(a, b) ==
    IF a.is_directory /\ ~b.is_directory THEN "Less"
    ELSE IF ~a.is_directory /\ b.is_directory THEN "Greater"
    ELSE str_cmp(a.name, b.name)

RECURSIVE insert_sorted(_, _)
\* x put behind the last element of the sorted sequence s that is not Greater
insert_sorted(s, x) ==
    IF s = <<>> THEN <<x>>
    ELSE IF cmp_nodes(Last(s), x) = "Greater"
         THEN insert_sorted(SubSeq(s, 1, Len(s) - 1), x) \o <<Last(s)>>
         ELSE s \o <<x>>

RECURSIVE insertion_sort(_)
\* the elements of s inserted one after the other, from the first
insertion_sort(s) ==
    IF s = <<>> THEN <<>>
    ELSE insert_sorted(insertion_sort(SubSeq(s, 1, Len(s) - 1)), Last(s))

\* the sort left out: the nodes stay in the order of the host
sort_by_skipped(s) == s

\* slice::sort_by with cmp_nodes: a stable sort
sort_by(s) == insertion_sort(s)

\* the virtual path taken relative to the directory that holds the entry
relative_path_to_parent(path_buf, root_base, file_name, h) ==
    LET sp == strip_prefix(path_buf, Parent(path_buf))
    IN  IF sp.ok
        THEN Slash \o replace(to_string_lossy(JoinWith(sp.rest, MainSeparator(h))),
                              Backslash, Slash)
        ELSE Slash \o file_name

\* lines 52-54: the virtual path of an entry
relative_path(path_buf, root_base, file_name, h) ==
    LET sp == strip_prefix(path_buf, root_base)
    IN  IF sp.ok
        THEN Slash \o replace(to_string_lossy(JoinWith(sp.rest, MainSeparator(h))),
                              Backslash, Slash)
        ELSE Slash \o file_name

\* the children of an ignored directory left as they were initialised
children_of_ignored_unset == None

\* line 67: the children of an ignored directory
children_of_ignored == Some(<<>>)

\* the Err arm leaving the children as they were initialised
children_of_result_unset_on_err(sub) ==
    IF sub.ok THEN Some(sort_by(sub.nodes)) ELSE None

\* lines 70-81: what the parent does with the result of the recursive call
children_of_result(sub) ==
    IF sub.ok THEN Some(sort_by(sub.nodes)) ELSE Some(<<>>)

RECURSIVE build_tree(_, _, _)
RECURSIVE walk_entries(_, _, _, _, _)

\* lines 46-95: the loop over the items of one directory, then the sort.
\* nodes is the Vec built so far, seen the directories listed so far
walk_entries(items, root_base, w, nodes, seen) ==
    IF items = <<>> THEN [ok |-> TRUE, nodes |-> sort_by(nodes), err |-> "", listed |-> seen]
    ELSE
    LET path_buf == Head(items)
    IN  IF Fault("entry", path_buf) \in w.faults
        THEN [ok |-> FALSE, nodes |-> <<>>, err |-> "entry error", listed |-> seen]
        ELSE IF Fault("metadata", path_buf) \in w.faults
        THEN [ok |-> FALSE, nodes |-> <<>>, err |-> "metadata error", listed |-> seen]
        ELSE
        LET file_name == to_string_lossy(Last(path_buf))
            rel       == relative_path(path_buf, root_base, file_name, w.host)
            is_dir    == w.fs[path_buf] = "dir"
            recurse   == is_dir /\ ~is_ignored(file_name)
            sub       == build_tree(path_buf, root_base, w)
            children  == IF ~is_dir THEN None
                         ELSE IF is_ignored(file_name) THEN children_of_ignored
                         ELSE children_of_result(sub)
            seen2     == IF recurse THEN seen \cup sub.listed ELSE seen
        IN  walk_entries(Tail(items), root_base, w,
                         Append(nodes, FileNode(file_name, rel, is_dir, children)), seen2)

\* fn build_tree(path, root_base) -> Result<Vec<FileNode>, String>
\* listed records the directories fs::read_dir was called on
build_tree(path, root_base, w) ==
    LET entries == read_dir(path, w)
    IN  IF ~entries.ok
        THEN [ok |-> FALSE, nodes |-> <<>>, err |-> "read_dir error", listed |-> {path}]
        ELSE walk_entries(entries.items, root_base, w, <<>>, {path})

\* get_project_tree without the check that the path exists
get_project_tree_unchecked(path, w) == build_tree(path, path, w)

\* get_project_tree turning a failure of the walk of the root into an empty tree
get_project_tree_absorbing(path, w) ==
    IF ~exists(path, w)
    THEN [ok |-> FALSE, nodes |-> <<>>, err |-> "Path does not exist", listed |-> {}]
    ELSE LET r == build_tree(path, path, w)
         IN  IF r.ok THEN r ELSE [r EXCEPT !.ok = TRUE, !.err = ""]

\* fn get_project_tree(path) -> Result<Vec<FileNode>, String>
get_project_tree(path, w) ==
    IF ~exists(path, w)
    THEN [ok |-> FALSE, nodes |-> <<>>, err |-> "Path does not exist", listed |-> {}]
    ELSE build_tree(path, path, w)

(***************************************************************************)
(* The inputs of a walk.                                                   *)
(***************************************************************************)
Hosts == {"unix", "windows"}

Entry(name, kind) == [name |-> name, kind |-> kind]

\* The entries a drawn file system is made of.  A Windows name holds neither
\* a backslash nor a byte that is no UTF-8; a Unix name may hold both.
WindowsEntries ==
    { Entry(Bytes(".git"), "dir"), Entry(Bytes("src"), "dir"),
      Entry(Bytes("a"), "file"), Entry(Bytes("B"), "file") }
UnixEntries ==
    { Entry(Bytes(".git"), "dir"), Entry(<<255>>, "dir"), Entry(<<254>>, "dir"),
      Entry(Bytes("a"), "file"), Entry(Bytes("B"), "file"), Entry(Bytes("x\\y"), "file") }
Entries(h) == IF h = "windows" THEN WindowsEntries ELSE UnixEntries

Dirs(f) == {p \in DOMAIN f : f[p] = "dir"}

\* every file system of F, and each with one more entry in one of its directories
Grow(F, h) ==
    F \cup UNION { { f @@ (Append(p, e.name) :> e.kind) :
                        p \in Dirs(f), e \in Entries(h) } : f \in F }

RECURSIVE FileSystems(_, _)
\* the file systems whose root is a directory with at most k entries below it
FileSystems(k, h) ==
    IF k = 0 THEN { (RootPath :> "dir") }
    ELSE Grow(FileSystems(k - 1, h), h)

\* a file system without the root, and one whose root is a file
NoRoot == << >>
RootIsFile == (RootPath :> "file")

\* the failures a walk of f can meet
FaultPoints(f) ==
    { Fault("read_dir", p) : p \in Dirs(f) }
      \cup { Fault("entry", p) : p \in DOMAIN f \ {RootPath} }
      \cup { Fault("metadata", p) : p \in DOMAIN f \ {RootPath} }

RECURSIVE FaultSets(_, _)
\* the sets of at most k failures on the file system f
FaultSets(f, k) ==
    IF k = 0 THEN { {} }
    ELSE LET prev == FaultSets(f, k - 1)
         IN  prev \cup { s \cup {x} : s \in prev, x \in FaultPoints(f) }

\* the entries of the directory d
EntriesOf(f, d) == { q \in DOMAIN f : Len(q) = Len(d) + 1 /\ Parent(q) = d }

RECURSIVE Perms(_)
\* the sequences that list every element of S once
Perms(S) ==
    IF S = {} THEN { <<>> }
    ELSE UNION { { <<x>> \o s : s \in Perms(S \ {x}) } : x \in S }

RECURSIVE OrdersOf(_, _)
\* the enumeration orders of the directories D of f: one sequence of its entries
\* for each directory
OrdersOf(f, D) ==
    IF D = {} THEN { << >> }
    ELSE LET d == CHOOSE x \in D : TRUE
         IN  { (d :> s) @@ g : s \in Perms(EntriesOf(f, d)), g \in OrdersOf(f, D \ {d}) }

\* the enumeration orders of the file system f
Orders(f) == OrdersOf(f, Dirs(f))

World(h, f, flt, ord) == [host |-> h, fs |-> f, faults |-> flt, order |-> ord]

(***************************************************************************)
(* The tree command as a state machine: a file system and the failures of  *)
(* the walk are drawn, the command is invoked with an enumeration order of *)
(* the host, and the caller takes the result.                              *)
(***************************************************************************)
\* the git side before any git command
GitIdle ==
    /\ repo = None
    /\ worktree = 0
    /\ reply = None
    /\ commits_ok = 0

Init ==
    /\ host \in Hosts
    /\ fs \in FileSystems(MaxEntries, host) \cup {NoRoot, RootIsFile}
    /\ faults \in FaultSets(fs, MaxFaults)
    /\ order = << >>
    /\ result = None
    /\ GitIdle

\* #[tauri::command] get_project_tree(path), invoked with the root
GetProjectTree ==
    /\ result = None
    /\ \E ord \in Orders(fs) :
        /\ order' = ord
        /\ result' = Some(get_project_tree(RootPath, World(host, fs, faults, ord)))
    /\ UNCHANGED <<host, fs, faults>>
    /\ UNCHANGED gitVars

\* the command has returned: the caller takes the snapshot
Return ==
    /\ result # None
    /\ result' = None
    /\ order' = << >>
    /\ UNCHANGED <<host, fs, faults>>
    /\ UNCHANGED gitVars

Next == GetProjectTree \/ Return

Spec == Init /\ [][Next]_vars

(***************************************************************************)
(* The example of the specification: the root holds the directory src with *)
(* the files a.ts and B.ts, the directory node_modules with anything in    *)
(* it, and the file readme.md.                                             *)
(***************************************************************************)
ExampleSrc == Append(RootPath, Bytes("src"))
ExampleModules == Append(RootPath, Bytes("node_modules"))

ExampleTree ==
    (RootPath :> "dir")
      @@ (ExampleSrc :> "dir")
      @@ (Append(ExampleSrc, Bytes("a.ts")) :> "file")
      @@ (Append(ExampleSrc, Bytes("B.ts")) :> "file")
      @@ (ExampleModules :> "dir")
      @@ (Append(RootPath, Bytes("readme.md")) :> "file")

\* what node_modules is filled with
ExampleExtras ==
    { Entry(Bytes(".git"), "dir"), Entry(Bytes("a"), "file") }

\* every file system of F, and each with one more entry at or below d
GrowBelow(F, d) ==
    F \cup UNION { { f @@ (Append(p, e.name) :> e.kind) :
                        p \in { q \in Dirs(f) : IsPrefix(d, q) }, e \in ExampleExtras } : f \in F }

RECURSIVE ExampleFileSystems(_)
\* the example with at most k entries in and below node_modules
ExampleFileSystems(k) ==
    IF k = 0 THEN { ExampleTree }
    ELSE GrowBelow(ExampleFileSystems(k - 1), ExampleModules)

InitExample ==
    /\ host \in Hosts
    /\ fs \in ExampleFileSystems(MaxEntries)
    /\ faults \in { flt \in FaultSets(fs, MaxFaults) :
                      \A x \in flt : IsPrefix(ExampleModules, x.path)
                                       /\ (x.path = ExampleModules => x.kind = "read_dir") }
    /\ order = << >>
    /\ result = None
    /\ GitIdle

SpecExample == InitExample /\ [][Next]_vars

(***************************************************************************)
(* The git commands.  repo is None while the project path holds no         *)
(* repository, else Some of a record                                       *)
(*   objects  the commits of the object database, a commit being a record  *)
(*            of its parents (ids), its tree and its message; the id of a  *)
(*            commit is its place in objects                               *)
(*   head     None while the branch HEAD names is unborn, else Some(the    *)
(*            id of the commit at its tip)                                 *)
(*   index    the staged tree                                              *)
(* A tree is the number of the edit of the working tree it was taken at.   *)
(***************************************************************************)
Messages == {"first", "second"}

\* the points at which the library can fail in git_commit
CommitFailures == {"none", "write_tree", "commit"}

Ok(text) == [ok |-> TRUE, text |-> text]
Err(text) == [ok |-> FALSE, text |-> text]

Reply(cmd, r) == Some([cmd |-> cmd, ok |-> r.ok, text |-> r.text])

EmptyRepository == [objects |-> <<>>, head |-> None, index |-> 0]

Commit(parents, tree, message) == [parents |-> parents, tree |-> tree, message |-> message]

\* Repository::open(path)
open(rp) == IF rp = None THEN Err("could not find repository") ELSE Ok("")

\* Repository::head: Err while the branch is unborn, else the reference,
\* whose target() is Some(the id at the tip)
head_of(r) ==
    IF r.head = None THEN [ok |-> FALSE, target |-> None]
    ELSE [ok |-> TRUE, target |-> r.head]

\* the parent never looked up: every commit is made as an initial commit
parent_commit_none(r) == [ok |-> TRUE, parent |-> None, text |-> ""]

\* lines 189-195: the parent of the commit to create: Err, or Ok with None
\* (initial commit) or Some(the commit HEAD points to)
parent_commit(r) ==
    LET h == head_of(r)
    IN  IF ~h.ok THEN [ok |-> TRUE, parent |-> None, text |-> ""]
        ELSE IF h.target = None
        THEN [ok |-> FALSE, parent |-> None, text |-> "HEAD is not pointing to a commit"]
        ELSE IF h.target[1] \notin DOMAIN r.objects
        THEN [ok |-> FALSE, parent |-> None, text |-> "object not found"]
        ELSE [ok |-> TRUE, parent |-> h.target, text |-> ""]

\* Repository::commit(Some("HEAD"), .., message, tree, parents): the commit is
\* written and the branch HEAD names is moved to it
commit_on_head(r, parents, tree, message) ==
    [r EXCEPT !.objects = Append(@, Commit(parents, tree, message)),
              !.head = Some(Len(r.objects) + 1)]

\* fn git_commit(path, message): the reply and the repository afterwards
git_commit(rp, message, failure) ==
    IF ~open(rp).ok THEN [reply |-> Err(open(rp).text), repo |-> rp]
    ELSE IF failure = "write_tree" THEN [reply |-> Err("write_tree failed"), repo |-> rp]
    ELSE
    LET r  == rp[1]
        pc == parent_commit(r)
        \* lines 197-201: a Some(commit) is one parent, a None is none
        parents == pc.parent
    IN  IF ~pc.ok THEN [reply |-> Err(pc.text), repo |-> rp]
        ELSE IF failure = "commit" THEN [reply |-> Err("commit failed"), repo |-> rp]
        ELSE [reply |-> Ok("Commit successful"),
              repo |-> Some(commit_on_head(r, parents, r.index, message))]

\* #[tauri::command] git_init(path): Repository::init makes a repository
\* where there is none and leaves an existing one as it is
GitInit ==
    /\ repo' = IF repo = None THEN Some(EmptyRepository) ELSE repo
    /\ reply' = Reply("git_init", Ok("Initialized empty Git repository"))
    /\ UNCHANGED <<worktree, commits_ok>>
    /\ UNCHANGED treeVars

\* #[tauri::command] git_add_all(path)
GitAddAll ==
    /\ IF ~open(repo).ok
       THEN /\ reply' = Reply("git_add_all", Err(open(repo).text))
            /\ UNCHANGED repo
       ELSE /\ repo' = Some([repo[1] EXCEPT !.index = worktree])
            /\ reply' = Reply("git_add_all", Ok("Staged all changes"))
    /\ UNCHANGED <<worktree, commits_ok>>
    /\ UNCHANGED treeVars

\* #[tauri::command] git_commit(path, message)
GitCommit ==
    /\ \E message \in Messages, failure \in CommitFailures :
         LET out == git_commit(repo, message, failure)
         IN  /\ out.reply.ok => commits_ok < MaxCommits
             /\ repo' = out.repo
             /\ reply' = Reply("git_commit", out.reply)
             /\ commits_ok' = IF out.reply.ok THEN commits_ok + 1 ELSE commits_ok
    /\ UNCHANGED worktree
    /\ UNCHANGED treeVars

\* the user edits the working tree
EditWorktree ==
    /\ worktree < MaxEdits
    /\ worktree' = worktree + 1
    /\ UNCHANGED <<repo, reply, commits_ok>>
    /\ UNCHANGED treeVars

InitGit ==
    /\ host = "unix"
    /\ fs = NoRoot
    /\ faults = {}
    /\ order = << >>
    /\ result = None
    /\ GitIdle

NextGit == GitInit \/ GitAddAll \/ GitCommit \/ EditWorktree

SpecGit == InitGit /\ [][NextGit]_vars

(***************************************************************************)
(* Reading a returned tree.                                                *)
(***************************************************************************)
Called == result # None
Returned == result[1]
ReturnedOk == Called /\ Returned.ok

Range(s) == { s[i] : i \in DOMAIN s }

RECURSIVE NodeSeqs(_)
\* every sequence of nodes of a tree: the top level and the children of every
\* directory node, at every depth
NodeSeqs(nodes) ==
    {nodes} \cup UNION { NodeSeqs(n.children[1]) : n \in {m \in Range(nodes) : m.children # None} }

RECURSIVE Trails(_, _)
\* every node of a tree with its trail: the names from the top level down to it
Trails(nodes, trail) ==
    UNION { {[trail |-> Append(trail, n.name), node |-> n]}
              \cup (IF n.children = None THEN {}
                    ELSE Trails(n.children[1], Append(trail, n.name))) : n \in Range(nodes) }

AllNodes(nodes) == { t.node : t \in Trails(nodes, <<>>) }

\* a is before b in the ordinal order of byte strings
ByteLess(a, b) ==
    \/ Len(a) < Len(b) /\ SubSeq(b, 1, Len(a)) = a
    \/ \E k \in 1..Len(a) :
         /\ k <= Len(b)
         /\ SubSeq(a, 1, k - 1) = SubSeq(b, 1, k - 1)
         /\ a[k] < b[k]

\* the string holds U+FFFD
HasReplacementChar(a) ==
    \E k \in 1..Len(a) : SubSeq(a, k, k + 2) = ReplacementChar

\* all directory nodes of the sequence come before all file nodes
DirsFirst(s) ==
    \A i, j \in DOMAIN s : (s[i].is_directory /\ ~s[j].is_directory) => i < j

(***************************************************************************)
(* C1                                                                      *)
(***************************************************************************)
\* C1 as stated: in every sequence of nodes of a returned tree the directory
\* nodes come before the file nodes, and among nodes of the same kind the
\* names are in strictly ascending byte order.
C1_StrictlyAscending ==
    ReturnedOk =>
        \A s \in NodeSeqs(Returned.nodes) :
            /\ DirsFirst(s)
            /\ \A i, j \in DOMAIN s :
                 (i < j /\ s[i].is_directory = s[j].is_directory)
                    => ByteLess(s[i].name, s[j].name)

\* C1 as amended: in every sequence of nodes of a returned tree the directory
\* nodes come before the file nodes, and among nodes of the same kind the
\* names are in ascending byte order, strictly except between names that are
\* equal and hold U+FFFD (file names that are no UTF-8, converted lossily).
C1_Ascending ==
    ReturnedOk =>
        \A s \in NodeSeqs(Returned.nodes) :
            /\ DirsFirst(s)
            /\ \A i, j \in DOMAIN s :
                 (i < j /\ s[i].is_directory = s[j].is_directory)
                    => \/ ByteLess(s[i].name, s[j].name)
                       \/ s[i].name = s[j].name /\ HasReplacementChar(s[i].name)

\* a walk that had to reorder: the host listed the root as file, file,
\* directory with the two files in descending byte order, and the tree has the
\* directory first and the two files in ascending byte order
C1_Witness ==
    /\ ReturnedOk
    /\ LET listing == order[RootPath]
       IN  /\ Len(listing) = 3
           /\ fs[listing[1]] = "file" /\ fs[listing[2]] = "file" /\ fs[listing[3]] = "dir"
           /\ ByteLess(Last(listing[2]), Last(listing[1]))
           /\ Len(Returned.nodes) = 3
           /\ Returned.nodes[1].is_directory
           /\ Returned.nodes[2].name = Last(listing[2])
           /\ Returned.nodes[3].name = Last(listing[1])

(***************************************************************************)
(* C2                                                                      *)
(***************************************************************************)
\* the byte strings joined by "/", behind a leading "/"
SlashJoined(names) == Slash \o JoinWith(names, Slash)

NoBackslash(a) == \A k \in DOMAIN a : a[k] # Backslash[1]

C4_ChildrenIffDirectory ==
    ReturnedOk =>
        \A n \in AllNodes(Returned.nodes) : (n.children # None) <=> n.is_directory

\* a returned tree with a file, an ignored directory, and a directory whose
\* listing failed
C4_Witness ==
    /\ ReturnedOk
    /\ \E p \in Dirs(fs) : Fault("read_dir", p) \in faults
    /\ \E n \in AllNodes(Returned.nodes) : ~n.is_directory
    /\ \E n \in AllNodes(Returned.nodes) : n.is_directory /\ is_ignored(n.name)
    /\ \E n \in AllNodes(Returned.nodes) : n.is_directory /\ ~is_ignored(n.name)

(***************************************************************************)
(* C5                                                                      *)
(***************************************************************************)
\* C5: on a path that does not exist the command returns the error "Path does
\* not exist", no node, and has listed no directory.
C5_MissingRoot ==
    (Called /\ RootPath \notin DOMAIN fs) =>
        /\ ~Returned.ok
        /\ Returned.err = "Path does not exist"
        /\ Returned.nodes = <<>>
        /\ Returned.listed = {}

\* the command was invoked on a path that does not exist
C5_Witness == Called /\ RootPath \notin DOMAIN fs

(***************************************************************************)
(* C3                                                                      *)
(***************************************************************************)
\* the nine names of the claim
C3Names ==
    { Bytes("node_modules"), Bytes(".git"), Bytes("target"), Bytes("dist"),
      Bytes("build"), Bytes(".maker"), Bytes("__pycache__"), Bytes("venv"),
      Bytes(".vscode") }

\* the names of the path below the root, as the nodes carry them
NodeNames(p) ==
    [i \in 1..(Len(p) - Len(RootPath)) |-> to_string_lossy(p[i + Len(RootPath)])]

\* the directories below the root that carry one of the nine names
NamedIgnored == { p \in Dirs(fs) \ {RootPath} : to_string_lossy(Last(p)) \in C3Names }

\* no failure of the walk lies outside the directory p
FaultsOnlyInside(p) ==
    \A x \in faults : IsPrefix(p, x.path) /\ (x.path = p => x.kind = "read_dir")

\* C3: a directory node with one of the nine names has children = [], the
\* walk lists neither the directory nor anything below it, whatever it holds,
\* and the node is in the sequence of its parent.
C3_IgnoredIsEmptyAndUnlisted ==
    Called =>
        /\ \A n \in AllNodes(Returned.nodes) :
             (n.is_directory /\ n.name \in C3Names) => n.children = Some(<<>>)
        /\ \A p \in NamedIgnored : \A q \in Returned.listed : ~IsPrefix(p, q)
        /\ \A p \in NamedIgnored :
             (/\ FaultsOnlyInside(p)
              /\ \A q \in NamedIgnored : q # p => ~IsPrefix(q, p))
             => /\ Returned.ok
                /\ \E t \in Trails(Returned.nodes, <<>>) :
                     /\ t.trail = NodeNames(p)
                     /\ t.node.is_directory
                     /\ t.node.children = Some(<<>>)

\* the walk met, in the root, a directory with one of the nine names that
\* holds a directory with one of the nine names and an entry whose metadata
\* cannot be read
C3_Witness ==
    /\ ReturnedOk
    /\ \E p \in NamedIgnored :
         /\ \E q \in NamedIgnored : Parent(q) = p
         /\ \E x \in faults : x.kind = "metadata" /\ Parent(x.path) = p
         /\ \E n \in Range(Returned.nodes) : n.name = Last(p) /\ n.children = Some(<<>>)

(***************************************************************************)
(* C6                                                                      *)
(***************************************************************************)
\* the root exists and the listing call on it succeeds
RootListed ==
    /\ RootPath \in DOMAIN fs
    /\ fs[RootPath] = "dir"
    /\ Fault("read_dir", RootPath) \notin faults

\* C6 as stated: the call returns an error only if the root does not exist or
\* the listing call on the root fails; whenever the root exists and listing it
\* succeeds the call returns Ok, whatever fails for an entry at any level.
C6_OnlyRootListingIsFatal ==
    Called => (Returned.ok <=> RootListed)

\* C6 as amended: the call returns an error exactly if the root does not
\* exist, the listing call on the root fails, or the enumeration or the
\* metadata read of an entry directly under the root fails; a failure of any
\* kind below an entry of the root never makes the call fail.
C6_RootLevelFailuresAreFatal ==
    Called =>
        (Returned.ok <=>
            /\ RootListed
            /\ \A x \in faults :
                 x.kind \in {"entry", "metadata"} => Parent(x.path) # RootPath)

\* the call returned Ok although the metadata of an entry two levels below the
\* root could not be read
C6_Witness ==
    /\ ReturnedOk
    /\ \E x \in faults :
         /\ x.kind = "metadata"
         /\ Len(x.path) = Len(RootPath) + 2
         /\ Parent(x.path) \in Returned.listed

(***************************************************************************)
(* C7                                                                      *)
(***************************************************************************)
\* the virtual path of the entry p
VirtualPath(p) ==
    SlashJoined([i \in DOMAIN NodeNames(p) |-> replace(NodeNames(p)[i], Backslash, Slash)])

\* the file system without what lies below the directory d
Prune(f, d) == [p \in { q \in DOMAIN f : q = d \/ ~IsPrefix(d, q) } |-> f[p]]

RECURSIVE ClearAt(_, _)
\* the tree with the children of the directory nodes at the virtual path v
\* replaced by the empty sequence
ClearAt(nodes, v) ==
    [i \in DOMAIN nodes |->
        IF nodes[i].children = None THEN nodes[i]
        ELSE IF nodes[i].path = v THEN [nodes[i] EXCEPT !.children = Some(<<>>)]
        ELSE [nodes[i] EXCEPT !.children = Some(ClearAt(nodes[i].children[1], v))]]

\* what the caller sees of a result
Seen(r) == [ok |-> r.ok, nodes |-> r.nodes, err |-> r.err]

\* the subdirectories whose listing was attempted in the last walk and failed
FailedListings ==
    { d \in Dirs(fs) \ {RootPath} :
        Fault("read_dir", d) \in faults /\ d \in Returned.listed }

\* C7: when the listing of a subdirectory D fails during the walk, the call
\* returns what it returns for the same file system with D empty and
\* readable, and, outside the children of D, what it returns with D readable:
\* the failure reaches neither the parent of D nor a sibling. If nothing else
\* fails, the call succeeds and D is a directory node with children = [].
C7_UnreadableSubdirIsEmpty ==
    Called =>
        \A d \in FailedListings :
            LET inside      == { x \in faults : IsPrefix(d, x.path) /\ x # Fault("metadata", d)
                                                  /\ x # Fault("entry", d) }
                emptied     == get_project_tree(RootPath,
                                   World(host, Prune(fs, d), faults \ inside,
                                         [p \in Dirs(Prune(fs, d)) |->
                                             IF p = d THEN <<>> ELSE order[p]]))
                readable    == get_project_tree(RootPath,
                                   World(host, fs, faults \ {Fault("read_dir", d)}, order))
            IN  /\ Seen(Returned) = Seen(emptied)
                /\ Returned.ok = readable.ok
                /\ ClearAt(Returned.nodes, VirtualPath(d)) = ClearAt(readable.nodes, VirtualPath(d))
                /\ faults = {Fault("read_dir", d)} =>
                     /\ Returned.ok
                     /\ \E t \in Trails(Returned.nodes, <<>>) :
                          /\ t.trail = NodeNames(d)
                          /\ t.node.is_directory
                          /\ t.node.children = Some(<<>>)

\* the listing of a subdirectory that holds an entry failed, and the tree has
\* the subdirectory, empty, and a sibling of it
C7_Witness ==
    /\ ReturnedOk
    /\ \E d \in FailedListings :
         /\ \E q \in DOMAIN fs : Parent(q) = d
         /\ \E i, j \in DOMAIN Returned.nodes :
              /\ i # j
              /\ Returned.nodes[i].name = to_string_lossy(Last(d))
              /\ Returned.nodes[i].children = Some(<<>>)

(***************************************************************************)
(* C9                                                                      *)
(***************************************************************************)
\* two entries of one directory have the same name once converted
NameClash ==
    \E p, q \in DOMAIN fs \ {RootPath} :
        /\ p # q
        /\ Parent(p) = Parent(q)
        /\ to_string_lossy(Last(p)) = to_string_lossy(Last(q))

\* C9 as stated: when no listing and no metadata call fails, the returned
\* tree is the same for every order in which the host enumerates the entries.
C9_OrderIndependent ==
    (Called /\ faults = {}) =>
        \A ord \in Orders(fs) :
            Seen(get_project_tree(RootPath, World(host, fs, faults, ord))) = Seen(Returned)

\* C9 as amended: when no listing and no metadata call fails and no two
\* entries of one directory have the same name after the lossy conversion to
\* a string, the returned tree is the same for every order in which the host
\* enumerates the entries.
C9_OrderIndependentNoClash ==
    (Called /\ faults = {} /\ ~NameClash) =>
        \A ord \in Orders(fs) :
            Seen(get_project_tree(RootPath, World(host, fs, faults, ord))) = Seen(Returned)

\* a walk without failure and without clash of three entries of the root, which
\* the host could have enumerated in another order
C9_Witness ==
    /\ ReturnedOk
    /\ faults = {}
    /\ ~NameClash
    /\ Len(Returned.nodes) = 3
    /\ \E ord \in Orders(fs) : ord # order

(***************************************************************************)
(* C8                                                                      *)
(***************************************************************************)
File(name, path) == FileNode(Bytes(name), Bytes(path), FALSE, None)
Directory(name, path, children) == FileNode(Bytes(name), Bytes(path), TRUE, Some(children))

\* C8 as stated: for the example the call returns node_modules with
\* children = [], then src, then readme.md, and the children of src are a.ts
\* followed by B.ts.
C8_ExampleAsStated ==
    Called =>
        /\ Returned.ok
        /\ Returned.nodes =
             << Directory("node_modules", "/node_modules", <<>>),
                Directory("src", "/src", << File("a.ts", "/src/a.ts"), File("B.ts", "/src/B.ts") >>),
                File("readme.md", "/readme.md") >>

\* C8 as amended: for the example the call returns node_modules with
\* children = [], then src, then readme.md, and the children of src are B.ts
\* followed by a.ts, the order of the bytes ("B" is 66, "a" is 97).
C8_ExampleByteOrder ==
    Called =>
        /\ Returned.ok
        /\ Returned.nodes =
             << Directory("node_modules", "/node_modules", <<>>),
                Directory("src", "/src", << File("B.ts", "/src/B.ts"), File("a.ts", "/src/a.ts") >>),
                File("readme.md", "/readme.md") >>

\* the example was walked with node_modules holding a directory, the host
\* listing readme.md first in the root and a.ts first in src
C8_Witness ==
    /\ Called
    /\ fs \in ExampleFileSystems(MaxEntries)
    /\ \E q \in Dirs(fs) : Parent(q) = ExampleModules
    /\ Last(order[RootPath][1]) = Bytes("readme.md")
    /\ Last(order[ExampleSrc][1]) = Bytes("a.ts")

(***************************************************************************)
(* C10                                                                     *)
(***************************************************************************)
\* the commits created so far, and the tip of HEAD
Objects(rp) == IF rp = None THEN <<>> ELSE rp[1].objects
Tip(rp) == IF rp = None THEN None ELSE rp[1].head

RECURSIVE ChainFrom(_, _)
\* the history reachable from the commit id through first parents
ChainFrom(objects, id) ==
    IF objects[id].parents = <<>> THEN <<id>>
    ELSE <<id>> \o ChainFrom(objects, objects[id].parents[1])

\* the history reachable from HEAD
History(rp) == IF Tip(rp) = None THEN <<>> ELSE ChainFrom(Objects(rp), Tip(rp)[1])

\* a step that returns Ok from git_commit
CommitSucceeds == reply' # None /\ reply'[1].cmd = "git_commit" /\ commits_ok' = commits_ok + 1

\* C10: a successful git_commit creates exactly one commit, with no parent
\* when HEAD resolved to no commit before and else with the one commit HEAD
\* pointed to, and moves HEAD to it; a git_commit that returns an error
\* creates no commit and leaves HEAD where it was; git_init and git_add_all
\* create no commit and leave HEAD where it was; so the history reachable
\* from HEAD is a linear chain as long as the number of successful commits.
C10_CommitChain ==
    /\ [][ /\ CommitSucceeds =>
                /\ Len(Objects(repo')) = Len(Objects(repo)) + 1
                /\ SubSeq(Objects(repo'), 1, Len(Objects(repo))) = Objects(repo)
                /\ Objects(repo')[Len(Objects(repo'))].parents = Tip(repo)
                /\ Tip(repo') = Some(Len(Objects(repo')))
           /\ ~CommitSucceeds =>
                /\ Objects(repo') = Objects(repo)
                /\ Tip(repo') = Tip(repo)
         ]_vars
    /\ [](/\ \A i \in DOMAIN Objects(repo) : Len(Objects(repo)[i].parents) <= 1
          /\ Len(History(repo)) = commits_ok
          /\ Len(Objects(repo)) = commits_ok)

\* as many commits as the bound allows were made and a git_commit has just returned an error
C10_Witness ==
    /\ commits_ok = MaxCommits
    /\ Len(History(repo)) = MaxCommits
    /\ reply # None /\ reply[1].cmd = "git_commit" /\ ~reply[1].ok

====
